---- MODULE Spec2Model ----
(***************************************************************************)
(* AstroAgent MVP API (api/index.py): sign resolution, the numerology      *)
(* digit, the lucky-date search, the horoscope fetch with its fallback and *)
(* the /predict and /zodiac handlers.                                      *)
(*                                                                         *)
(* Text is a sequence of characters, each written as a string: an ASCII    *)
(* character as itself, a Cyrillic letter as "cy_" and its transliteration *)
(* ("cy_v" is the small letter ve, "CY_V" the capital, "cy_yo" the letter  *)
(* io).  A calendar date is a record [year, month, day]; date arithmetic   *)
(* goes through the proleptic Gregorian ordinal, as datetime.date does.    *)
(***************************************************************************)
EXTENDS Integers, Sequences, FiniteSets, TLC

VARIABLES
    req,       \* the request being handled
    intent,    \* how the request's sign text was written (history, not read by the code)
    today,     \* date.today()
    pc,        \* the handler's position
    sign_en,   \* predict: sign_en
    calls,     \* outbound calls issued for this request
    upstream,  \* what the horoscope service did with the call
    west,      \* predict: west
    summary,   \* predict: summary
    adv,       \* predict: adv
    lucky,     \* predict: lucky
    lpd,       \* lucky_dates: reduce_digit_sum(lp)
    status,    \* HTTP status of the response
    err,       \* the exception that ended the handler
    body       \* the response body

vars == <<req, intent, today, pc, sign_en, calls, upstream, west, summary,
          adv, lucky, lpd, status, err, body>>

(***************************************************************************)
(* Bounds of the model                                                     *)
(***************************************************************************)
\* explicit sign inputs carry at most MaxPad whitespace characters per side
MaxPad == 1
\* consecutive years, from BaseYear on, whose every date is a birth date
YearSpan == 1
\* years at each end of the supported range whose every date is a birth date
EdgeYears == 1
\* consecutive years, from the year of BirthFirst on, given to the numerology
LifeYearSpan == 9
\* the days the clock may show to the search: TodaySpan of them, from
\* TodayFirst on, TodayStride days apart
TodaySpan == 64
TodayStride == 6
\* consecutive birth dates, from BirthFirst on, given to the search
BirthSpan == 9
\* consecutive days, from TodayFirst on, that the clock may show to /predict
PredictTodaySpan == 1

(***************************************************************************)
(* datetime.date                                                           *)
(***************************************************************************)
MINYEAR == 1
MAXYEAR == 9999

IsLeap(y) == y % 4 = 0 /\ (y % 100 # 0 \/ y % 400 = 0)

DaysInMonth(y, m) ==
    IF m = 2 THEN (IF IsLeap(y) THEN 29 ELSE 28)
    ELSE IF m \in {4, 6, 9, 11} THEN 30 ELSE 31

\* date(y, m, d) raises ValueError unless this holds
ValidDate(y, m, d) ==
    /\ y \in MINYEAR..MAXYEAR
    /\ m \in 1..12
    /\ d \in 1..DaysInMonth(y, m)

Date(y, m, d) == [year |-> y, month |-> m, day |-> d]

\* d1 < d2, d1 <= d2 on dates
DateLess(a, b) ==
    \/ a.year < b.year
    \/ a.year = b.year /\ a.month < b.month
    \/ a.year = b.year /\ a.month = b.month /\ a.day < b.day

DateLeq(a, b) == a = b \/ DateLess(a, b)

DaysBeforeYear(y) ==
    (y - 1) * 365 + (y - 1) \div 4 - (y - 1) \div 100 + (y - 1) \div 400

\* days of a common year before the first of each month
DAYS_BEFORE_MONTH == <<0, 31, 59, 90, 120, 151, 181, 212, 243, 273, 304, 334>>

\* days of the year y before the first of month m
DaysBeforeMonth(y, m) ==
    DAYS_BEFORE_MONTH[m] + (IF m > 2 /\ IsLeap(y) THEN 1 ELSE 0)

\* date.toordinal(): 0001-01-01 is day 1
ToOrdinal(d) == DaysBeforeYear(d.year) + DaysBeforeMonth(d.year, d.month) + d.day

MaxOrdinal == ToOrdinal(Date(MAXYEAR, 12, 31))

\* date.fromordinal(n), by the 400-, 100-, 4- and 1-year cycles
FromOrdinal(n) ==
    LET n400 == (n - 1) \div 146097
        r400 == (n - 1) % 146097
        n100 == r400 \div 36524
        r100 == r400 % 36524
        n4   == r100 \div 1461
        r4   == r100 % 1461
        n1   == r4 \div 365
        r1   == r4 % 365
        y    == n400 * 400 + n100 * 100 + n4 * 4 + n1 + 1
        m0   == (r1 + 50) \div 32
        m    == IF DaysBeforeMonth(y, m0) > r1 THEN m0 - 1 ELSE m0
    IN  IF n1 = 4 \/ n100 = 4 THEN Date(y - 1, 12, 31)
        ELSE Date(y, m, r1 - DaysBeforeMonth(y, m) + 1)

\* date.weekday(): Monday is 0
Weekday(d) == (ToOrdinal(d) + 6) % 7

DIGITS == <<"0", "1", "2", "3", "4", "5", "6", "7", "8", "9">>

Digit(k) == DIGITS[k + 1]

DigitVal(c) == CHOOSE k \in 0..9 : Digit(k) = c

\* date.isoformat(): YYYY-MM-DD
IsoFormat(d) ==
    << Digit(d.year \div 1000), Digit((d.year \div 100) % 10),
       Digit((d.year \div 10) % 10), Digit(d.year % 10), "-",
       Digit(d.month \div 10), Digit(d.month % 10), "-",
       Digit(d.day \div 10), Digit(d.day % 10) >>

\* date.strftime('%d.%m.%Y')
StrfDMY(d) ==
    << Digit(d.day \div 10), Digit(d.day % 10), ".",
       Digit(d.month \div 10), Digit(d.month % 10), ".",
       Digit(d.year \div 1000), Digit((d.year \div 100) % 10),
       Digit((d.year \div 10) % 10), Digit(d.year % 10) >>

(***************************************************************************)
(* Static tables                                                           *)
(***************************************************************************)
\* ZODIAC_EN_RU in insertion order: canonical id, its characters, display name
ZODIAC_EN_RU ==
    << [en |-> "aries",       key |-> <<"a","r","i","e","s">>,
        ru |-> <<"CY_O","cy_v","cy_e","cy_n">>],
       [en |-> "taurus",      key |-> <<"t","a","u","r","u","s">>,
        ru |-> <<"CY_T","cy_e","cy_l","cy_e","cy_c">>],
       [en |-> "gemini",      key |-> <<"g","e","m","i","n","i">>,
        ru |-> <<"CY_B","cy_l","cy_i","cy_z","cy_n","cy_e","cy_c","cy_y">>],
       [en |-> "cancer",      key |-> <<"c","a","n","c","e","r">>,
        ru |-> <<"CY_R","cy_a","cy_k">>],
       [en |-> "leo",         key |-> <<"l","e","o">>,
        ru |-> <<"CY_L","cy_e","cy_v">>],
       [en |-> "virgo",       key |-> <<"v","i","r","g","o">>,
        ru |-> <<"CY_D","cy_e","cy_v","cy_a">>],
       [en |-> "libra",       key |-> <<"l","i","b","r","a">>,
        ru |-> <<"CY_V","cy_e","cy_s","cy_y">>],
       [en |-> "scorpio",     key |-> <<"s","c","o","r","p","i","o">>,
        ru |-> <<"CY_S","cy_k","cy_o","cy_r","cy_p","cy_i","cy_o","cy_n">>],
       [en |-> "sagittarius", key |-> <<"s","a","g","i","t","t","a","r","i","u","s">>,
        ru |-> <<"CY_S","cy_t","cy_r","cy_e","cy_l","cy_e","cy_c">>],
       [en |-> "capricorn",   key |-> <<"c","a","p","r","i","c","o","r","n">>,
        ru |-> <<"CY_K","cy_o","cy_z","cy_e","cy_r","cy_o","cy_g">>],
       [en |-> "aquarius",    key |-> <<"a","q","u","a","r","i","u","s">>,
        ru |-> <<"CY_V","cy_o","cy_d","cy_o","cy_l","cy_e","cy_j">>],
       [en |-> "pisces",      key |-> <<"p","i","s","c","e","s">>,
        ru |-> <<"CY_R","cy_y","cy_b","cy_y">>] >>

Signs == { ZODIAC_EN_RU[k].en : k \in 1..Len(ZODIAC_EN_RU) }

\* the cased letters: the Latin alphabet and the Cyrillic letters of the names
UpperLetters ==
    << "A","B","C","D","E","F","G","H","I","J","K","L","M","N","O","P","Q","R",
       "S","T","U","V","W","X","Y","Z",
       "CY_A","CY_B","CY_V","CY_G","CY_D","CY_E","CY_Z","CY_I","CY_J","CY_K","CY_L","CY_N","CY_O","CY_P","CY_R","CY_S","CY_T","CY_C","CY_Y","CY_YO" >>

LowerLetters ==
    << "a","b","c","d","e","f","g","h","i","j","k","l","m","n","o","p","q","r",
       "s","t","u","v","w","x","y","z",
       "cy_a","cy_b","cy_v","cy_g","cy_d","cy_e","cy_z","cy_i","cy_j","cy_k","cy_l","cy_n","cy_o","cy_p","cy_r","cy_s","cy_t","cy_c","cy_y","cy_yo" >>

\* str.lower() and str.upper() on one character
LowerChar(c) ==
    IF \E k \in 1..Len(UpperLetters) : UpperLetters[k] = c
    THEN LowerLetters[CHOOSE k \in 1..Len(UpperLetters) : UpperLetters[k] = c]
    ELSE c

UpperChar(c) ==
    IF \E k \in 1..Len(LowerLetters) : LowerLetters[k] = c
    THEN UpperLetters[CHOOSE k \in 1..Len(LowerLetters) : LowerLetters[k] = c]
    ELSE c

Lower(s) == [k \in 1..Len(s) |-> LowerChar(s[k])]

\* the characters str.strip() removes
Whitespace == {" ", "\t", "\n"}

RECURSIVE LStrip(_)
LStrip(s) ==
    IF s # <<>> /\ Head(s) \in Whitespace THEN LStrip(Tail(s)) ELSE s

RECURSIVE RStrip(_)
RStrip(s) ==
    IF s # <<>> /\ s[Len(s)] \in Whitespace
    THEN RStrip(SubSeq(s, 1, Len(s) - 1)) ELSE s

Strip(s) == RStrip(LStrip(s))

\* str.replace(old, new) for a one-character old and a new of length <= 1
RECURSIVE Replace(_, _, _)
Replace(s, old, new) ==
    IF s = <<>> THEN <<>>
    ELSE (IF Head(s) = old THEN new ELSE <<Head(s)>>) \o Replace(Tail(s), old, new)

\* ZODIAC_RU_EN = {v.lower(): k for k, v in ZODIAC_EN_RU.items()}
ZODIAC_RU_EN ==
    [k \in 1..Len(ZODIAC_EN_RU) |->
        [key |-> Lower(ZODIAC_EN_RU[k].ru), en |-> ZODIAC_EN_RU[k].en]]

\* s in ZODIAC_EN_RU, s in ZODIAC_RU_EN
InEnRu(s) == \E k \in 1..Len(ZODIAC_EN_RU) : ZODIAC_EN_RU[k].key = s

InRuEn(s) == \E k \in 1..Len(ZODIAC_RU_EN) : ZODIAC_RU_EN[k].key = s

\* the key s itself, as the canonical identifier it spells
EnId(s) == ZODIAC_EN_RU[CHOOSE k \in 1..Len(ZODIAC_EN_RU) : ZODIAC_EN_RU[k].key = s].en

\* ZODIAC_RU_EN[s]; of equal keys the dict keeps the last
RuEnGet(s) ==
    LET ks == {k \in 1..Len(ZODIAC_RU_EN) : ZODIAC_RU_EN[k].key = s}
    IN  ZODIAC_RU_EN[CHOOSE k \in ks : \A j \in ks : j <= k].en

\* ZODIAC_EN_RU[sign_en]
EnRuGet(id) == ZODIAC_EN_RU[CHOOSE k \in 1..Len(ZODIAC_EN_RU) : ZODIAC_EN_RU[k].en = id].ru

\* a faulty variant of FAVORABLE_WEEKDAYS: the table has lost the entry of
\* pisces, whose search is left with the numerology alone
FAVORABLE_WEEKDAYS_without_pisces(id) ==
    CASE id = "aries"       -> {1}
      [] id = "taurus"      -> {4}
      [] id = "gemini"      -> {2}
      [] id = "cancer"      -> {0}
      [] id = "leo"         -> {6}
      [] id = "virgo"       -> {2}
      [] id = "libra"       -> {4}
      [] id = "scorpio"     -> {1}
      [] id = "sagittarius" -> {3}
      [] id = "capricorn"   -> {5}
      [] id = "aquarius"    -> {5}
      [] OTHER              -> {}

\* FAVORABLE_WEEKDAYS.get(sign_en, []) as a set
FAVORABLE_WEEKDAYS(id) ==
    CASE id = "aries"       -> {1}
      [] id = "taurus"      -> {4}
      [] id = "gemini"      -> {2}
      [] id = "cancer"      -> {0}
      [] id = "leo"         -> {6}
      [] id = "virgo"       -> {2}
      [] id = "libra"       -> {4}
      [] id = "scorpio"     -> {1}
      [] id = "sagittarius" -> {3}
      [] id = "capricorn"   -> {5}
      [] id = "aquarius"    -> {5}
      [] id = "pisces"      -> {3}
      [] OTHER              -> {}

\* the Russian names are written in Latin transliteration
WEEKDAY_NAMES_RU ==
    << "Ponedelnik", "Vtornik", "Sreda", "Chetverg", "Pyatnica", "Subbota",
       "Voskresenye" >>

WEEKDAY_NAMES_EN ==
    << "Monday", "Tuesday", "Wednesday", "Thursday", "Friday", "Saturday",
       "Sunday" >>

ADVICE_CATEGORIES == {"work", "love", "energy"}

\* ADVICE_BANK[lang][category] holds three sentences; a sentence is named by
\* its language, category and position
ADVICE_BANK(lang, category) ==
    [k \in 1..3 |-> <<lang, category, k>>]

(***************************************************************************)
(* A call either returns a value or raises an exception                    *)
(***************************************************************************)
Ret(v) == [exc |-> "none", val |-> v]

Raise(e) == [exc |-> e, val |-> "none"]

(***************************************************************************)
(* zodiac_from_date                                                        *)
(***************************************************************************)
\* the (month, day) corners of the ranges list, first year offset then month
\* and day of start and end
RangeTable ==
    << <<"capricorn",   0, 12, 22, 1,  1, 19>>,
       <<"aquarius",    0,  1, 20, 0,  2, 18>>,
       <<"pisces",      0,  2, 19, 0,  3, 20>>,
       <<"aries",       0,  3, 21, 0,  4, 19>>,
       <<"taurus",      0,  4, 20, 0,  5, 20>>,
       <<"gemini",      0,  5, 21, 0,  6, 20>>,
       <<"cancer",      0,  6, 21, 0,  7, 22>>,
       <<"leo",         0,  7, 23, 0,  8, 22>>,
       <<"virgo",       0,  8, 23, 0,  9, 22>>,
       <<"libra",       0,  9, 23, 0, 10, 22>>,
       <<"scorpio",     0, 10, 23, 0, 11, 21>>,
       <<"sagittarius", 0, 11, 22, 0, 12, 21>> >>

\* ranges, built for the year y of the date
Ranges(y) ==
    [k \in 1..Len(RangeTable) |->
        [sign  |-> RangeTable[k][1],
         start |-> Date(y + RangeTable[k][2], RangeTable[k][3], RangeTable[k][4]),
         end   |-> Date(y + RangeTable[k][5], RangeTable[k][6], RangeTable[k][7])]]

\* every date(...) of the list is constructed before the loop starts
RangesConstructible(y) ==
    \A k \in 1..Len(RangeTable) :
        /\ ValidDate(y + RangeTable[k][2], RangeTable[k][3], RangeTable[k][4])
        /\ ValidDate(y + RangeTable[k][5], RangeTable[k][6], RangeTable[k][7])

\* the test of the loop body for one range
RangeAccepts(r, d) ==
    IF r.start.month = 12
    THEN DateLeq(r.start, d) \/ DateLeq(d, r.end)
    ELSE DateLeq(r.start, d) /\ DateLeq(d, r.end)

zodiac_from_date(d) ==
    IF ~RangesConstructible(d.year) THEN Raise("ValueError")
    ELSE LET ranges == Ranges(d.year)
             hits == {k \in 1..Len(ranges) : RangeAccepts(ranges[k], d)}
         IN  IF hits = {} THEN Ret("capricorn")
             ELSE Ret(ranges[CHOOSE k \in hits : \A j \in hits : k <= j].sign)

(***************************************************************************)
(* normalize_sign                                                          *)
(***************************************************************************)
\* an optional text: None, or a string
None == [present |-> FALSE, text |-> <<>>]

Some(s) == [present |-> TRUE, text |-> s]

\* not s or not s.strip()
Blank(s) == ~s.present \/ s.text = <<>> \/ Strip(s.text) = <<>>

\* the lookups of the stripped, lower-cased text
LookupSign(s_low) ==
    LET s_fold == Replace(Replace(s_low, "cy_yo", <<"cy_e">>), " ", <<>>)
    IN  IF InEnRu(s_low) THEN Ret(EnId(s_low))
        ELSE IF InRuEn(s_low) THEN Ret(RuEnGet(s_low))
        ELSE IF InRuEn(s_fold) THEN Ret(RuEnGet(s_fold))
        ELSE Raise("HTTPException400")

\* a faulty variant of normalize_sign: the text is stripped but not lower-cased
normalize_sign_no_lower(s, d) ==
    IF Blank(s) THEN zodiac_from_date(d)
    ELSE CHOOSE r \in { LookupSign(s_low) : s_low \in {Strip(s.text)} } : TRUE

\* a faulty variant of normalize_sign: a text no table holds falls back to the
\* birth date instead of raising
normalize_sign_date_fallback(s, d) ==
    IF Blank(s) THEN zodiac_from_date(d)
    ELSE CHOOSE r \in
           { IF l.exc = "none" THEN l ELSE zodiac_from_date(d) :
               l \in {LookupSign(Lower(Strip(s.text)))} } : TRUE

\* s_low is computed once, before the lookups
normalize_sign(s, d) ==
    IF Blank(s) THEN zodiac_from_date(d)
    ELSE CHOOSE r \in { LookupSign(s_low) : s_low \in {Lower(Strip(s.text))} } : TRUE

(***************************************************************************)
(* reduce_digit_sum, the life-path digit                                   *)
(***************************************************************************)
\* sum(int(c) for c in str(n)), n >= 0
RECURSIVE DigitSum(_)
DigitSum(n) == IF n < 10 THEN n ELSE (n % 10) + DigitSum(n \div 10)

\* a faulty variant of reduce_digit_sum: one pass of the loop only
reduce_digit_sum_once(n) == IF n > 9 THEN DigitSum(n) ELSE n

RECURSIVE reduce_digit_sum(_)
reduce_digit_sum(n) == IF n > 9 THEN reduce_digit_sum(DigitSum(n)) ELSE n

\* lp, the sum of the three reduced components
life_path_sum(bd) ==
    reduce_digit_sum(bd.year) + reduce_digit_sum(bd.month) + reduce_digit_sum(bd.day)

\* reduce_digit_sum(lp), the digit a candidate is compared with
life_path_digit(bd) == reduce_digit_sum(life_path_sum(bd))

weekday_name(idx, lang) ==
    IF lang = "ru" THEN WEEKDAY_NAMES_RU[idx + 1] ELSE WEEKDAY_NAMES_EN[idx + 1]

(***************************************************************************)
(* lucky_dates                                                             *)
(***************************************************************************)
NoReason == "None"

\* the Russian tags are written in Latin transliteration
NumerologyReason(lang) ==
    IF lang = "ru" THEN "Numerologiya sovpala" ELSE "Numerology match"

WeekdayReason(lang) ==
    IF lang = "ru" THEN "Blagopriyatnyj den nedeli" ELSE "Favorable weekday"

\* LuckyDate(iso=day.isoformat(), human=..., reason=reason)
LuckyDate(day, lang, reason) ==
    [iso    |-> IsoFormat(day),
     human  |-> StrfDMY(day) \o <<" ", "(", weekday_name(Weekday(day), lang), ")">>,
     reason |-> reason]

\* a faulty variant of CandidateReason: the weekday is tested first and the
\* numerology only when the weekday gave no reason
CandidateReason_weekday_first(lp, fav_wd, lang, day) ==
    LET ds == reduce_digit_sum(day.day + day.month)
        r1 == IF Weekday(day) \in fav_wd THEN WeekdayReason(lang) ELSE NoReason
    IN  IF r1 = NoReason /\ ds = reduce_digit_sum(lp) THEN NumerologyReason(lang) ELSE r1

\* the reason the loop body gives the candidate day, None when it gives none
CandidateReason(lp, fav_wd, lang, day) ==
    LET ds == reduce_digit_sum(day.day + day.month)
        r1 == IF ds = reduce_digit_sum(lp) THEN NumerologyReason(lang) ELSE NoReason
    IN  IF r1 = NoReason /\ Weekday(day) \in fav_wd THEN WeekdayReason(lang) ELSE r1

\* the loop body for the candidate day: found, with the day's entry appended
\* when the day has a reason
LoopBody(lp, fav_wd, lang, day, found) ==
    LET reason == CandidateReason(lp, fav_wd, lang, day)
    IN  IF reason # NoReason
        THEN Append(found, LuckyDate(day, lang, reason))
        ELSE found

\* the while loop, from i on with found so far; now is today's ordinal.  The
\* candidate day and the body's result are bound as values (as members of
\* one-element sets) before the next iteration, so that each is computed once.
RECURSIVE LuckyLoop(_, _, _, _, _, _, _)
LuckyLoop(lp, fav_wd, lang, count, now, i, found) ==
    IF Len(found) < count /\ i <= 90
    THEN IF now + i > MaxOrdinal THEN Raise("OverflowError")
         ELSE CHOOSE r \in
                { LuckyLoop(lp, fav_wd, lang, count, now, j, f) :
                    j \in {i + 1},
                    f \in { LoopBody(lp, fav_wd, lang, day, found) :
                              day \in {FromOrdinal(now + i)} } } : TRUE
    ELSE Ret(found)

\* a faulty variant of lucky_dates: the loop starts at i = 0, with today as its
\* first candidate
lucky_dates_from_today(bd, sign, lang, count, now) ==
    CHOOSE r \in
        { LuckyLoop(lp, fav_wd, lang, count, n, 0, <<>>) :
            lp \in {life_path_sum(bd)},
            fav_wd \in {FAVORABLE_WEEKDAYS(sign)},
            n \in {ToOrdinal(now)} } : TRUE

\* lp, fav_wd and today are computed once, before the loop
lucky_dates(bd, sign, lang, count, now) ==
    CHOOSE r \in
        { LuckyLoop(lp, fav_wd, lang, count, n, 1, <<>>) :
            lp \in {life_path_sum(bd)},
            fav_wd \in {FAVORABLE_WEEKDAYS(sign)},
            n \in {ToOrdinal(now)} } : TRUE

(***************************************************************************)
(* get_western_horoscope_aztro, local_summary, pick_advice                 *)
(***************************************************************************)
\* What the service may do with the one POST.  A 200 answer carries a JSON
\* object (its "description" a text, the empty text, null or absent), a JSON
\* value that is no object, or a body that is no JSON.  r.json() on a body
\* that is no JSON raises requests.JSONDecodeError (a RequestException) in
\* requests >= 2.27 and a plain ValueError before; the version is not pinned.
Descriptions == {"Today brings clarity.", "", "null", "absent"}

UpstreamOutcomes ==
    { [kind |-> k, description |-> "absent", decode |-> "none"] :
        k \in {"timeout", "connection_error", "status_not_200", "json_non_object"} }
    \cup { [kind |-> "json_object", description |-> d, decode |-> "none"] :
             d \in Descriptions }
    \cup { [kind |-> "not_json", description |-> "absent", decode |-> e] :
             e \in {"RequestException", "ValueError"} }

NoUpstream == [kind |-> "none", description |-> "absent", decode |-> "none"]

\* an optional dict: None, or the dict, of which predict reads "summary" (the
\* other five keys are filled the same way from data.get(key, ""))
NoWest == [present |-> FALSE, summary |-> ""]

get_western_horoscope_aztro(u) ==
    CASE u.kind \in {"timeout", "connection_error"} -> Ret(NoWest)
      [] u.kind = "status_not_200" -> Ret(NoWest)
      [] u.kind = "not_json" ->
            IF u.decode = "RequestException" THEN Ret(NoWest) ELSE Raise("ValueError")
      [] u.kind = "json_non_object" -> Raise("AttributeError")
      [] u.kind = "json_object" ->
            Ret([present |-> TRUE,
                 summary |-> IF u.description = "absent" THEN "" ELSE u.description])

\* the Russian sentence is written in Latin transliteration
local_summary(lang, sign) ==
    IF lang = "ru"
    THEN "Den podhodit dlya akkuratnogo prodvizheniya v delah i spokojnogo obshcheniya."
    ELSE "A steady day for focused progress and calm communication."

\* west["summary"] if (west and west.get("summary")) else local_summary(...)
SummaryOf(w, lang, sign) ==
    IF w.present /\ w.summary \notin {"", "null"} THEN w.summary
    ELSE local_summary(lang, sign)

\* pick_advice with the three random.choice results at positions w, l, e
pick_advice(lang, w, l, e) ==
    [work   |-> ADVICE_BANK(lang, "work")[w],
     love   |-> ADVICE_BANK(lang, "love")[l],
     energy |-> ADVICE_BANK(lang, "energy")[e]]

NoAdvice == [work |-> <<>>, love |-> <<>>, energy |-> <<>>]

\* questions_ru, questions_en: a question is named by its language and position
Questions(lang) == [k \in 1..3 |-> <<lang, "question", k>>]

NoBody == [kind |-> "none"]

(***************************************************************************)
(* Requests                                                                *)
(***************************************************************************)
BaseYear == Date(2000, 1, 1).year

TodayFirst == Date(2024, 1, 1)

BirthFirst == Date(1990, 5, 15)

\* every valid date of the years ys
DatesOf(ys) ==
    UNION { { Date(y, m, d) : d \in 1..DaysInMonth(y, m) } : y \in ys, m \in 1..12 }

\* the n days from the date first on
DaysFrom(first, n) == { FromOrdinal(ToOrdinal(first) + k) : k \in 0..(n - 1) }

PadChars == {" ", "\t"}

\* whitespace of length at most n
Pads(n) == UNION { [1..k -> PadChars] : k \in 0..n }

\* the lower-case text s with the positions U in upper case
Cased(s, U) == [k \in 1..Len(s) |-> IF k \in U THEN UpperChar(s[k]) ELSE s[k]]

\* all lower case, all upper case, one capital
CasePatterns(n) == {{}, 1..n} \cup { {k} : k \in 1..n }

\* the text s with c put before position k
InsertAt(s, k, c) == SubSeq(s, 1, k - 1) \o <<c>> \o SubSeq(s, k, Len(s))

\* a sign text, and how it was written
SignInput(text, kind, id) == [sign |-> text, intent |-> [kind |-> kind, sign |-> id]]

\* no sign: absent, empty, or whitespace only
BlankSigns(n) ==
    {SignInput(None, "absent", "none")}
    \cup { SignInput(Some(l), "blank", "none") : l \in Pads(n) }

\* a canonical identifier or a display name, in some letter case, padded
NamedSigns(n) ==
    UNION { { SignInput(Some(l \o Cased(ZODIAC_EN_RU[k].key, U) \o r),
                        "en", ZODIAC_EN_RU[k].en) :
                U \in CasePatterns(Len(ZODIAC_EN_RU[k].key)),
                l \in Pads(n), r \in Pads(n) }
            \cup
            { SignInput(Some(l \o Cased(Lower(ZODIAC_EN_RU[k].ru), U) \o r),
                        "ru", ZODIAC_EN_RU[k].en) :
                U \in CasePatterns(Len(ZODIAC_EN_RU[k].ru)),
                l \in Pads(n), r \in Pads(n) } :
            k \in 1..Len(ZODIAC_EN_RU) }

\* a display name with one letter ie written io, or one space inside
FoldedSigns ==
    UNION { LET name == Lower(ZODIAC_EN_RU[k].ru)
            IN  { SignInput(Some([name EXCEPT ![p] = "cy_yo"]),
                            "folded", ZODIAC_EN_RU[k].en) :
                    p \in {q \in 1..Len(name) : name[q] = "cy_e"} }
                \cup
                { SignInput(Some(InsertAt(name, p, " ")),
                            "folded", ZODIAC_EN_RU[k].en) :
                    p \in 2..Len(name) } :
            k \in 1..Len(ZODIAC_EN_RU) }

\* texts that name no sign
UnknownTexts ==
    { <<"u","n","i","c","o","r","n">>,
      <<"U","n","i","c","o","r","n">>,
      <<"a","r","i"," ","e","s">>,
      <<"a","r","i","e","s","!">>,
      <<"a","r","i","e">>,
      <<"o","v","e","n">>,
      <<"r","a","m">>,
      <<"cy_o","cy_v","cy_e">>,
      <<"cy_o","cy_v","cy_e","cy_n","cy_y">>,
      <<"cy_l","cy_e","cy_yo">>,
      <<"l","e","o","cy_l","cy_e","cy_v">>,
      <<"1">> }

UnknownSigns(n) ==
    { SignInput(Some(l \o s \o r), "unknown", "none") :
        s \in UnknownTexts, l \in Pads(n), r \in Pads(n) }

Languages == {"ru", "en"}

PredictRequest(bd, lang, s) ==
    [endpoint |-> "predict", name |-> "Anna", birth_date |-> bd,
     language |-> lang, sign |-> s]

ZodiacRequest(bd, lang) ==
    [endpoint |-> "zodiac", name |-> "", birth_date |-> bd,
     language |-> lang, sign |-> None]

NoRequest == [endpoint |-> "none", name |-> "", birth_date |-> BirthFirst,
              language |-> "ru", sign |-> None]

NoIntent == [kind |-> "none", sign |-> "none"]

(***************************************************************************)
(* The handlers                                                            *)
(***************************************************************************)
\* the handler has raised e: FastAPI answers an HTTPException with its status
\* code and any other exception with 500
Fail(e) ==
    /\ pc' = "responded"
    /\ err' = e
    /\ status' = IF e = "HTTPException400" THEN 400 ELSE 500
    /\ body' = IF e = "HTTPException400"
               THEN [kind |-> "error", detail |-> "Unknown zodiac sign"]
               ELSE [kind |-> "error", detail |-> "Internal Server Error"]

\* GET /zodiac
Zodiac ==
    /\ pc = "received"
    /\ req.endpoint = "zodiac"
    /\ LET r == zodiac_from_date(req.birth_date)
       IN  IF r.exc = "none"
           THEN /\ sign_en' = r.val
                /\ pc' = "responded"
                /\ status' = 200
                /\ err' = "none"
                /\ body' = [kind    |-> "zodiac",
                            sign_en |-> r.val,
                            sign_ru |-> IF req.language = "ru"
                                        THEN EnRuGet(r.val)
                                        ELSE r.val]
           ELSE /\ Fail(r.exc)
                /\ UNCHANGED sign_en
    /\ UNCHANGED <<req, intent, today, calls, upstream, west, summary, adv, lucky, lpd>>

\* predict: sign_en = normalize_sign(req.sign, req.birth_date); sign_ru = ...
Predict_NormalizeSign ==
    /\ pc = "received"
    /\ req.endpoint = "predict"
    /\ LET r == normalize_sign(req.sign, req.birth_date)
       IN  IF r.exc = "none"
           THEN /\ sign_en' = r.val
                /\ pc' = "resolved"
                /\ UNCHANGED <<status, err, body>>
           ELSE /\ Fail(r.exc)
                /\ UNCHANGED sign_en
    /\ UNCHANGED <<req, intent, today, calls, upstream, west, summary, adv, lucky, lpd>>

\* a faulty variant of Predict_Fetch: a call that gave no result is made a
\* second time
Predict_Fetch_retry ==
    /\ pc = "resolved"
    /\ \E u \in UpstreamOutcomes :
          LET r == get_western_horoscope_aztro(u)
          IN  /\ upstream' = u
              /\ IF r.exc = "none"
                 THEN /\ west' = r.val
                      /\ calls' = IF r.val.present THEN calls + 1 ELSE calls + 2
                      /\ pc' = "fetched"
                      /\ UNCHANGED <<status, err, body>>
                 ELSE /\ Fail(r.exc)
                      /\ calls' = calls + 1
                      /\ UNCHANGED west
    /\ UNCHANGED <<req, intent, today, sign_en, summary, adv, lucky, lpd>>

\* predict: west = get_western_horoscope_aztro(sign_en)
Predict_Fetch ==
    /\ pc = "resolved"
    /\ \E u \in UpstreamOutcomes :
          LET r == get_western_horoscope_aztro(u)
          IN  /\ upstream' = u
              /\ calls' = calls + 1
              /\ IF r.exc = "none"
                 THEN /\ west' = r.val
                      /\ pc' = "fetched"
                      /\ UNCHANGED <<status, err, body>>
                 ELSE /\ Fail(r.exc)
                      /\ UNCHANGED west
    /\ UNCHANGED <<req, intent, today, sign_en, summary, adv, lucky, lpd>>

\* predict: summary = ...; adv = pick_advice(req.language)
Predict_Advise ==
    /\ pc = "fetched"
    /\ summary' = SummaryOf(west, req.language, sign_en)
    /\ \E w \in 1..3, l \in 1..3, e \in 1..3 :
          adv' = pick_advice(req.language, w, l, e)
    /\ pc' = "advised"
    /\ UNCHANGED <<req, intent, today, sign_en, calls, upstream, west, lucky, lpd,
                   status, err, body>>

\* predict: lucky = lucky_dates(..., count=3); return PredictResponse(...)
Predict_LuckyDates ==
    /\ pc = "advised"
    /\ LET r == lucky_dates(req.birth_date, sign_en, req.language, 3, today)
       IN  IF r.exc = "none"
           THEN /\ lucky' = r.val
                /\ lpd' = life_path_digit(req.birth_date)
                /\ pc' = "responded"
                /\ status' = 200
                /\ err' = "none"
                /\ body' = [kind        |-> "forecast",
                            date        |-> IsoFormat(today),
                            user        |-> [name |-> req.name,
                                             language |-> req.language],
                            zodiac      |-> [en |-> sign_en, ru |-> EnRuGet(sign_en)],
                            sources     |-> [western    |-> "Aztro (public API, daily); fallback: local",
                                             vedic      |-> "Simple favorable weekday heuristic",
                                             numerology |-> "Digit-sum life path & date match"],
                            forecast    |-> [summary |-> summary,
                                             work    |-> adv.work,
                                             love    |-> adv.love,
                                             energy  |-> adv.energy],
                            lucky_dates |-> lucky',
                            questions   |-> Questions(req.language)]
           ELSE /\ Fail(r.exc)
                /\ UNCHANGED <<lucky, lpd>>
    /\ UNCHANGED <<req, intent, today, sign_en, calls, upstream, west, summary, adv>>

\* the values the request-scoped variables have before a request is handled
Fresh ==
    /\ sign_en = "none"
    /\ calls = 0
    /\ upstream = NoUpstream
    /\ west = NoWest
    /\ summary = "none"
    /\ adv = NoAdvice
    /\ lucky = <<>>
    /\ lpd = 0
    /\ status = 0
    /\ err = "none"
    /\ body = NoBody

(***************************************************************************)
(* The service: requests arrive one after another                          *)
(***************************************************************************)
PredictBirths == {BirthFirst, Date(MAXYEAR, 6, 15)}

PredictSigns ==
    { SignInput(None, "absent", "none"),
      SignInput(Some(<<" ">>), "blank", "none"),
      SignInput(Some(<<"a","r","i","e","s">>), "en", "aries"),
      SignInput(Some(<<" ","CY_O","cy_v","cy_e","cy_n">>), "ru", "aries"),
      SignInput(Some(<<"u","n","i","c","o","r","n">>), "unknown", "none") }

Init ==
    /\ pc = "idle"
    /\ req = NoRequest
    /\ intent = NoIntent
    /\ today = TodayFirst
    /\ Fresh

Receive ==
    /\ pc = "idle"
    /\ \E bd \in PredictBirths, lang \in Languages :
          \/ \E s \in PredictSigns, t \in DaysFrom(TodayFirst, PredictTodaySpan) :
                /\ req' = PredictRequest(bd, lang, s.sign)
                /\ intent' = s.intent
                /\ today' = t
          \/ /\ req' = ZodiacRequest(bd, lang)
             /\ intent' = NoIntent
             /\ today' = TodayFirst
    /\ pc' = "received"
    /\ UNCHANGED <<sign_en, calls, upstream, west, summary, adv, lucky, lpd,
                   status, err, body>>

\* the response is sent; every request-scoped value is discarded
Finish ==
    /\ pc = "responded"
    /\ pc' = "idle"
    /\ req' = NoRequest
    /\ intent' = NoIntent
    /\ today' = TodayFirst
    /\ sign_en' = "none"
    /\ calls' = 0
    /\ upstream' = NoUpstream
    /\ west' = NoWest
    /\ summary' = "none"
    /\ adv' = NoAdvice
    /\ lucky' = <<>>
    /\ lpd' = 0
    /\ status' = 0
    /\ err' = "none"
    /\ body' = NoBody

Handle ==
    \/ Zodiac
    \/ Predict_NormalizeSign
    \/ Predict_Fetch
    \/ Predict_Advise
    \/ Predict_LuckyDates

Next == Receive \/ Handle \/ Finish

Spec == Init /\ [][Next]_vars

\* a handler runs to its end: the code is sequential and the one blocking
\* call is bounded by timeout=8
FairSpec == Spec /\ WF_vars(Handle)

(***************************************************************************)
(* Sign resolution on its own: one request, received, with the sign texts  *)
(* and birth dates drawn widely                                            *)
(***************************************************************************)
EdgeYearSet ==
    (MINYEAR..(MINYEAR + EdgeYears - 1)) \cup ((MAXYEAR - EdgeYears + 1)..MAXYEAR)

ResolveYears == EdgeYearSet \cup (BaseYear..(BaseYear + YearSpan - 1))

\* the canonical identifiers and display names as the tables write them
PlainSigns ==
    { SignInput(Some(ZODIAC_EN_RU[k].key), "en", ZODIAC_EN_RU[k].en) :
        k \in 1..Len(ZODIAC_EN_RU) }
    \cup { SignInput(Some(ZODIAC_EN_RU[k].ru), "ru", ZODIAC_EN_RU[k].en) :
             k \in 1..Len(ZODIAC_EN_RU) }

ResolveInit ==
    /\ pc = "received"
    /\ today = TodayFirst
    /\ Fresh
    /\ \/ \E bd \in DatesOf(ResolveYears), s \in BlankSigns(MaxPad) :
             /\ req = PredictRequest(bd, "ru", s.sign)
             /\ intent = s.intent
       \/ \E bd \in DatesOf(BaseYear..(BaseYear + YearSpan - 1)), s \in PlainSigns :
             /\ req = PredictRequest(bd, "en", s.sign)
             /\ intent = s.intent
       \/ \E bd \in PredictBirths, lang \in Languages,
             s \in NamedSigns(MaxPad) \cup FoldedSigns \cup UnknownSigns(MaxPad) :
             /\ req = PredictRequest(bd, lang, s.sign)
             /\ intent = s.intent
       \/ \E bd \in DatesOf(ResolveYears), lang \in Languages :
             /\ req = ZodiacRequest(bd, lang)
             /\ intent = NoIntent

ResolveNext == Predict_NormalizeSign \/ Zodiac

ResolveSpec == ResolveInit /\ [][ResolveNext]_vars

(***************************************************************************)
(* The lucky-date search on its own: one /predict request that named its   *)
(* sign, at the call of lucky_dates after a call upstream that timed out   *)
(***************************************************************************)
\* the days the clock may show
SearchTodays ==
    { FromOrdinal(ToOrdinal(TodayFirst) + k * TodayStride) : k \in 0..(TodaySpan - 1) }

LifeYears == EdgeYearSet \cup (BirthFirst.year..(BirthFirst.year + LifeYearSpan - 1))

TimedOut == [kind |-> "timeout", description |-> "absent", decode |-> "none"]

AtSearch(bd, k, lang, t) ==
    /\ pc = "advised"
    /\ req = PredictRequest(bd, lang, Some(ZODIAC_EN_RU[k].key))
    /\ intent = [kind |-> "en", sign |-> ZODIAC_EN_RU[k].en]
    /\ today = t
    /\ sign_en = ZODIAC_EN_RU[k].en
    /\ calls = 1
    /\ upstream = TimedOut
    /\ west = NoWest
    /\ summary = local_summary(lang, ZODIAC_EN_RU[k].en)
    /\ adv = pick_advice(lang, 1, 1, 1)
    /\ lucky = <<>>
    /\ lpd = 0
    /\ status = 0
    /\ err = "none"
    /\ body = NoBody

SearchInit ==
    \/ \E bd \in DaysFrom(BirthFirst, BirthSpan), k \in 1..Len(ZODIAC_EN_RU),
          lang \in Languages, t \in SearchTodays :
          AtSearch(bd, k, lang, t)
    \/ \E bd \in DatesOf(LifeYears) : AtSearch(bd, 1, "ru", TodayFirst)
    \/ \E y \in MINYEAR..MAXYEAR :
          AtSearch(Date(y, BirthFirst.month, BirthFirst.day), 1, "en", TodayFirst)

SearchNext == Predict_LuckyDates

SearchSpec == SearchInit /\ [][SearchNext]_vars

(***************************************************************************)
(* Properties                                                              *)
(***************************************************************************)
\* date.fromisoformat on YYYY-MM-DD
ParseIso(s) ==
    Date(DigitVal(s[1]) * 1000 + DigitVal(s[2]) * 100 + DigitVal(s[3]) * 10 + DigitVal(s[4]),
         DigitVal(s[6]) * 10 + DigitVal(s[7]),
         DigitVal(s[9]) * 10 + DigitVal(s[10]))

\* the day an entry of lucky_dates names, as an ordinal
EntryOrd(e) == ToOrdinal(ParseIso(e.iso))

\* the tropical sign of a month and day, both ends of each range included
TropicalSign(d) ==
    LET md == d.month * 100 + d.day
    IN  CASE md >= 120 /\ md <= 218   -> "aquarius"
          [] md >= 219 /\ md <= 320   -> "pisces"
          [] md >= 321 /\ md <= 419   -> "aries"
          [] md >= 420 /\ md <= 520   -> "taurus"
          [] md >= 521 /\ md <= 620   -> "gemini"
          [] md >= 621 /\ md <= 722   -> "cancer"
          [] md >= 723 /\ md <= 822   -> "leo"
          [] md >= 823 /\ md <= 922   -> "virgo"
          [] md >= 923 /\ md <= 1022  -> "libra"
          [] md >= 1023 /\ md <= 1121 -> "scorpio"
          [] md >= 1122 /\ md <= 1221 -> "sagittarius"
          [] OTHER                    -> "capricorn"

\* the request gave no sign, and its sign has been looked for
ResolvedFromDate ==
    /\ pc \in {"resolved", "responded"}
    /\ calls = 0
    /\ req.endpoint = "zodiac" \/ intent.kind \in {"absent", "blank"}

\* C1: with no explicit sign (absent or blank), /predict's resolution and
\* /zodiac give every birth date, in every year, the sign whose tropical
\* month/day range contains it, both boundary dates of each range included.
C1_TropicalRanges ==
    ResolvedFromDate => err = "none" /\ sign_en = TropicalSign(req.birth_date)

\* C5: an explicit sign written as a canonical English identifier or a Russian
\* display name, in any letter case and with surrounding whitespace, resolves
\* to that sign whatever the birth date is.
C5_ExplicitSignWins ==
    (pc # "received" /\ intent.kind \in {"en", "ru"})
        => pc = "resolved" /\ err = "none" /\ sign_en = intent.sign

\* "ovEn" in Cyrillic letters with a tab before it, for a birth date in June
\* of the last year
C5_Witness ==
    /\ pc = "resolved"
    /\ req.sign.text = <<"\t", "cy_o", "cy_v", "CY_E", "cy_n">>
    /\ req.birth_date = Date(MAXYEAR, 6, 15)
    /\ sign_en = "aries"

\* the text without its whitespace and with io written ie
Folded(s) ==
    LET bare == SelectSeq(s, LAMBDA c : c \notin Whitespace)
    IN  [k \in 1..Len(bare) |-> IF bare[k] = "cy_yo" THEN "cy_e" ELSE bare[k]]

\* the text names a sign: it is an identifier or a display name up to case
\* and surrounding whitespace, or a display name once folded
NamesASign(s) ==
    LET low == Lower(Strip(s))
        fold == Folded(low)
    IN  \E k \in 1..Len(ZODIAC_EN_RU) :
            \/ low = ZODIAC_EN_RU[k].key
            \/ low = Lower(ZODIAC_EN_RU[k].ru)
            \/ fold = Lower(ZODIAC_EN_RU[k].ru)

\* C6: an explicit non-blank sign that names no sign makes /predict answer
\* with the 400 error of InvalidInput and no forecast, for every birth date;
\* no sign is taken from the birth date and nothing further is done.
C6_UnknownSignRejected ==
    (/\ pc # "received"
     /\ req.endpoint = "predict"
     /\ req.sign.present
     /\ Strip(req.sign.text) # <<>>
     /\ ~NamesASign(req.sign.text))
        => /\ pc = "responded"
           /\ status = 400
           /\ err = "HTTPException400"
           /\ body.kind = "error"
           /\ sign_en = "none"
           /\ calls = 0

\* "unicorn" for a birth date the ranges would give a sign
C6_Witness ==
    /\ pc = "responded"
    /\ req.sign.text = <<"u","n","i","c","o","r","n">>
    /\ req.birth_date = BirthFirst
    /\ status = 400

\* the search has returned
Searched == pc = "responded" /\ req.endpoint = "predict" /\ calls = 1 /\ err = "none"

\* C2: lucky_dates with count=3 returns at most 3 entries, their dates are
\* strictly increasing, and every date d has today < d <= today + 90 days.
C2_SearchWindow ==
    Searched =>
        /\ Len(lucky) <= 3
        /\ \A k \in 1..(Len(lucky) - 1) :
              DateLess(ParseIso(lucky[k].iso), ParseIso(lucky[k + 1].iso))
        /\ \A k \in 1..Len(lucky) :
              /\ ToOrdinal(today) < EntryOrd(lucky[k])
              /\ EntryOrd(lucky[k]) <= ToOrdinal(today) + 90

\* three entries, the first of them tomorrow
C2_Witness ==
    /\ Searched
    /\ Len(lucky) = 3
    /\ EntryOrd(lucky[1]) = ToOrdinal(today) + 1

\* the candidate with ordinal o matches the life-path digit
DigitMatch(o) ==
    LET day == FromOrdinal(o)
    IN  reduce_digit_sum(day.day + day.month) = life_path_digit(req.birth_date)

\* the candidate with ordinal o falls on a favorable weekday of the sign
WeekdayMatch(o) == Weekday(FromOrdinal(o)) \in FAVORABLE_WEEKDAYS(sign_en)

Qualifies(o) == DigitMatch(o) \/ WeekdayMatch(o)

\* C7: lucky_dates returns exactly the first count qualifying candidates of
\* today+1..today+90 in order, skipping none; a candidate qualifies iff its
\* day+month digit is the life-path digit or its weekday is favorable; the
\* reason is the numerology tag whenever the digit matches and the weekday
\* tag only when it does not.
C7_FirstQualifying ==
    Searched =>
        LET now  == ToOrdinal(today)
            ords == [k \in 1..Len(lucky) |-> EntryOrd(lucky[k])]
            last == IF Len(lucky) = 3 THEN ords[3] ELSE now + 90
        IN  /\ Len(lucky) <= 3
            /\ \A k \in 1..Len(lucky) : ords[k] \in (now + 1)..(now + 90)
            /\ \A k \in 1..(Len(lucky) - 1) : ords[k] < ords[k + 1]
            /\ \A o \in (now + 1)..last :
                  Qualifies(o) <=> \E k \in 1..Len(lucky) : ords[k] = o
            /\ \A k \in 1..Len(lucky) :
                  lucky[k].reason = IF DigitMatch(ords[k])
                                    THEN NumerologyReason(req.language)
                                    ELSE WeekdayReason(req.language)

\* an entry that matches both ways carries the numerology tag, another one
\* carries the weekday tag
C7_Witness ==
    /\ Searched
    /\ \E k \in 1..Len(lucky) :
          /\ DigitMatch(EntryOrd(lucky[k]))
          /\ WeekdayMatch(EntryOrd(lucky[k]))
          /\ lucky[k].reason = NumerologyReason(req.language)
    /\ \E k \in 1..Len(lucky) : lucky[k].reason = WeekdayReason(req.language)

\* C3: the life-path digit of every valid date of the years 1..9999 is an
\* integer in 1..9, and that of 1990-05-15 is 3.
C3_LifePathDigit ==
    Searched =>
        /\ lpd \in 1..9
        /\ req.birth_date = Date(1990, 5, 15) => lpd = 3

C3_Witness ==
    /\ Searched
    /\ req.birth_date = Date(1990, 5, 15)
    /\ lpd = 3

\* C10: for every one of the 12 signs lucky_dates with count=3 returns
\* exactly 3 entries, none later than today + 21 days.
C10_ThreeWithinThreeWeeks ==
    Searched =>
        /\ Len(lucky) = 3
        /\ \A k \in 1..Len(lucky) : EntryOrd(lucky[k]) <= ToOrdinal(today) + 21

\* three entries of which two are there for the weekday alone
C10_Witness ==
    /\ Searched
    /\ Len(lucky) = 3
    /\ lucky[2].reason = WeekdayReason(req.language)
    /\ lucky[3].reason = WeekdayReason(req.language)

\* the one call failed: no connection, a time-out, or a status other than 200
CallFailed == upstream.kind \in {"timeout", "connection_error", "status_not_200"}

\* the answer to the one call is no JSON object
PayloadMalformed == upstream.kind \in {"not_json", "json_non_object"}

\* the forecast of the response carries the fallback sentence of the language
AnsweredWithFallback ==
    /\ status = 200
    /\ err = "none"
    /\ body.kind = "forecast"
    /\ body.forecast.summary = local_summary(req.language, sign_en)

\* C4: on a network failure, a time-out, a non-200 response or a malformed
\* payload of the horoscope call, the fetch gives "no result" and /predict
\* answers successfully with the fallback sentence of the request's language;
\* the failure never reaches the caller as an error.
C4_UpstreamFailureFallsBack ==
    (calls = 1 /\ (CallFailed \/ PayloadMalformed))
        => /\ west = NoWest
           /\ pc \in {"fetched", "advised", "responded"}
           /\ pc = "responded" => AnsweredWithFallback

\* C8: a request with a language in {"ru","en"}, a sign that is absent or
\* resolvable and a valid birth date of the years 1..9999 gets no error from
\* sign resolution, the numerology or the search: /predict and /zodiac answer
\* normally unless the horoscope call itself breaks the request.
C8_CoreTotal ==
    (pc = "responded" /\ intent.kind # "unknown" /\ ~PayloadMalformed)
        => status = 200 /\ err = "none"

\* C9: one /predict request issues at most one outbound call, and issues it
\* once the sign is resolved; a request rejected with InvalidInput issues
\* none; after a failed or timed-out call no second call follows, the request
\* takes the fallback sentence, and every request whose sign was resolved
\* ends with a response.
C9_SingleCall ==
    /\ [](calls <= 1)
    /\ [](pc \in {"fetched", "advised"} => calls = 1)
    /\ []((pc = "responded" /\ err = "HTTPException400") => calls = 0)
    /\ [][calls' > calls => (pc = "resolved" /\ calls' = 1)]_vars
    /\ [][(calls = 1 /\ pc # "responded") => calls' = 1]_vars
    /\ []((pc = "responded" /\ calls = 1 /\ CallFailed) => AnsweredWithFallback)
    /\ (pc = "resolved" ~> pc = "responded")

\* a request whose one call timed out, answered with the fallback sentence
C9_Witness ==
    /\ pc = "responded"
    /\ calls = 1
    /\ upstream.kind = "timeout"
    /\ AnsweredWithFallback

====
